---------------------------- MODULE Spec2Model ----------------------------
(***************************************************************************)
(* Model of the view-layer glue of Alewex/emission:                        *)
(*   - the render-state resolver factory (src/unnamed/part_001), a closure *)
(*     over one boolean `retrying` that maps a Relay ready state           *)
(*     {error, props, retry} to a LoadFailureView, the wrapped Container   *)
(*     or a Spinner;                                                       *)
(*   - the tracking wrappers `track` and `pageViewTrack`                   *)
(*     (src/unnamed/part_000), which configure the react-tracking          *)
(*     decorator with a dispatch callback posting to the native sink.      *)
(***************************************************************************)
EXTENDS Integers, Sequences, FiniteSets

VARIABLES
    retrying,      \* part_001:11  let retrying = false
    initialProps,  \* part_001:9   the factory's initialProps argument
    calls,         \* one entry per call of the returned function
    wrapper,       \* the wrapper applied to each component of the tree
    mounted,       \* the components currently mounted
    cprops,        \* each component's current properties (its slug)
    updates,       \* the property updates delivered so far
    sink,          \* the payloads of the calls of Events.postEvent, in order
    dataLayer,     \* what the facility's default dispatcher received
    dispatched,    \* the records handed to pageViewTrack's dispatch callback
    tracked,       \* the calls of track-instrumented methods, in order
    flags,         \* part_001:11  the retrying flag of each of two resolvers
    pairInitial,   \* part_001:9   the initialProps of each of two resolvers
    pairCalls      \* the calls of the two resolvers, in the order made

resolverVars == <<retrying, initialProps, calls>>

trackVars ==
    <<wrapper, mounted, cprops, updates, sink, dataLayer, dispatched, tracked>>

pairVars == <<flags, pairInitial, pairCalls>>

vars == <<resolverVars, trackVars, pairVars>>

(***************************************************************************)
(* Bounds                                                                  *)
(***************************************************************************)
MaxCalls == 3
MaxMergeCalls == 2
MaxVal == 3
NumComps == 2
MaxUpdates == 2
MaxEvents == 2
MaxPairCalls == 4

(***************************************************************************)
(* Values                                                                  *)
(***************************************************************************)
Keys == {"a", "b"}

PropValues == 1..MaxVal

\* A props object: a mapping from some of the keys to values.
PropMaps == UNION {[D -> PropValues] : D \in SUBSET Keys}

EmptyProps == [k \in {} |-> 1]

\* retry callbacks are told apart by identity; 0 stands for `undefined`.
RetryIds == {1, 2}

NoRetry == 0

\* response bodies, as character sequences
Digits == {"1", "2"}

Bodies == {<<>>, <<"{", "}">>, <<"1", "2">>, <<"{">>, <<"<", "h", ">">>}

NoError == [present |-> FALSE, hasResponse |-> FALSE, body |-> <<>>]

Errors ==
    {[present |-> TRUE, hasResponse |-> FALSE, body |-> <<>>]}
    \cup {[present |-> TRUE, hasResponse |-> TRUE, body |-> b] : b \in Bodies}

NoProps == [present |-> FALSE, map |-> EmptyProps]

SomeProps(m) == [present |-> TRUE, map |-> m]

ReadState(e, p, r) == [error |-> e, props |-> p, retry |-> r]

(***************************************************************************)
(* Rendered elements                                                       *)
(***************************************************************************)
Element(kind, onRetry, props, style) ==
    [kind |-> kind, onRetry |-> onRetry, props |-> props, style |-> style]

NoElement == Element("none", NoRetry, EmptyProps, "none")

(***************************************************************************)
(* JSON.parse on a response body (the subset of the grammar the bodies     *)
(* exercise: an empty object or an unsigned integer; anything else is a    *)
(* SyntaxError).                                                           *)
(***************************************************************************)
IsJSONNumber(s) == Len(s) > 0 /\ \A i \in 1..Len(s) : s[i] \in Digits

IsJSONObject(s) == s = <<"{", "}">>

JSONParse(s) ==
    IF IsJSONObject(s) THEN [threw |-> FALSE, type |-> "object"]
    ELSE IF IsJSONNumber(s) THEN [threw |-> FALSE, type |-> "number"]
    ELSE [threw |-> TRUE, type |-> "string"]

\* A bug: the try block without its catch, so a SyntaxError escapes.
TryParseNoCatch(body) ==
    LET r == JSONParse(body)
    IN  [threw |-> r.threw, type |-> r.type]

\* part_001:16-20  try { data = JSON.parse(data) } catch (e) {}
\* `data` keeps the raw string when the parse throws.
TryParse(body) ==
    LET r == JSONParse(body)
    IN  [threw |-> FALSE, type |-> IF r.threw THEN "string" ELSE r.type]

\* part_001:14-22  the diagnostic logging of the error path: what is handed
\* to console.error (at most one entry), and whether an exception escapes.
ErrorLog(error) ==
    IF error.hasResponse /\ error.body # <<>>
    THEN LET d == TryParse(error.body)
         IN  [threw |-> d.threw,
              logged |-> IF d.threw THEN <<>>
                         ELSE <<[body |-> error.body, type |-> d.type]>>]
    ELSE [threw |-> FALSE, logged |-> <<>>]


(***************************************************************************)
(* The function returned by the factory (part_001:12-41)                   *)
(***************************************************************************)
FailureView(onRetry) == Element("LoadFailureView", onRetry, EmptyProps, "flex1")

\* A bug: the flag is never cleared once set.
ErrorBranchSticky(flag, retry) ==
    IF flag
    THEN [retrying |-> TRUE, out |-> FailureView(NoRetry), invoked |-> <<>>]
    ELSE [retrying |-> TRUE, out |-> FailureView(retry), invoked |-> <<>>]

\* A bug: the two returns swapped.
ErrorBranchSwapped(flag, retry) ==
    IF flag
    THEN [retrying |-> FALSE, out |-> FailureView(retry), invoked |-> <<>>]
    ELSE [retrying |-> TRUE, out |-> FailureView(NoRetry), invoked |-> <<>>]

\* A bug: the retry affordance is offered on every error.
ErrorBranchAlwaysRetry(flag, retry) ==
    [retrying |-> ~flag, out |-> FailureView(retry), invoked |-> <<>>]

\* A bug: the resolver re-issues the fetch itself on the suppressed branch.
ErrorBranchAutoRetry(flag, retry) ==
    IF flag
    THEN [retrying |-> FALSE, out |-> FailureView(NoRetry), invoked |-> <<retry>>]
    ELSE [retrying |-> TRUE, out |-> FailureView(retry), invoked |-> <<>>]

\* part_001:24-35  if (retrying) {...} else {...}
ErrorBranch(flag, retry) ==
    IF flag
    THEN [retrying |-> FALSE, out |-> FailureView(NoRetry), invoked |-> <<>>]
    ELSE [retrying |-> TRUE, out |-> FailureView(retry), invoked |-> <<>>]

\* A bug: the spreads in the wrong order, so initialProps win.
MergeInitialWins(initial, delivered) ==
    [k \in (DOMAIN initial) \cup (DOMAIN delivered) |->
        IF k \in DOMAIN initial THEN initial[k] ELSE delivered[k]]

\* part_001:37  {...initialProps} {...props}: later spreads overwrite.
Merge(initial, delivered) ==
    [k \in (DOMAIN initial) \cup (DOMAIN delivered) |->
        IF k \in DOMAIN delivered THEN delivered[k] ELSE initial[k]]

\* part_001:37  <Container {...initialProps} {...props} />
PropsBranch(initial, delivered) ==
    Element("Container", NoRetry, Merge(initial, delivered), "none")

\* A bug: nothing is rendered while loading.
LoadingBranchNull == NoElement

\* part_001:39  <Spinner style={{ flex: 1 }} />
LoadingBranch == Element("Spinner", NoRetry, EmptyProps, "flex1")

Result(flag, out, threw, logged, invoked) ==
    [retrying |-> flag, out |-> out, threw |-> threw, logged |-> logged,
     invoked |-> invoked]

\* A bug: a successful or loading read state clears the flag.
resolveClearsOnSuccess(flag, initial, rs) ==
    IF rs.error.present
    THEN LET l == ErrorLog(rs.error)
         IN  IF l.threw
             THEN Result(flag, NoElement, TRUE, <<>>, <<>>)
             ELSE LET b == ErrorBranch(flag, rs.retry)
                  IN  Result(b.retrying, b.out, FALSE, l.logged, b.invoked)
    ELSE IF rs.props.present
         THEN Result(FALSE, PropsBranch(initial, rs.props.map), FALSE, <<>>, <<>>)
         ELSE Result(FALSE, LoadingBranch, FALSE, <<>>, <<>>)

\* A bug: props tested before error.
resolvePropsFirst(flag, initial, rs) ==
    IF rs.props.present
    THEN Result(flag, PropsBranch(initial, rs.props.map), FALSE, <<>>, <<>>)
    ELSE IF rs.error.present
         THEN LET l == ErrorLog(rs.error)
              IN  IF l.threw
                  THEN Result(flag, NoElement, TRUE, <<>>, <<>>)
                  ELSE LET b == ErrorBranch(flag, rs.retry)
                       IN  Result(b.retrying, b.out, FALSE, l.logged, b.invoked)
         ELSE Result(flag, LoadingBranch, FALSE, <<>>, <<>>)

\* part_001:12-41  ({ error, props, retry }) => { ... }
\* An exception escaping the logging leaves the closure untouched and
\* returns nothing.
resolve(flag, initial, rs) ==
    IF rs.error.present
    THEN LET l == ErrorLog(rs.error)
         IN  IF l.threw
             THEN Result(flag, NoElement, TRUE, <<>>, <<>>)
             ELSE LET b == ErrorBranch(flag, rs.retry)
                  IN  Result(b.retrying, b.out, FALSE, l.logged, b.invoked)
    ELSE IF rs.props.present
         THEN Result(flag, PropsBranch(initial, rs.props.map), FALSE, <<>>, <<>>)
         ELSE Result(flag, LoadingBranch, FALSE, <<>>, <<>>)

(***************************************************************************)
(* Inputs                                                                  *)
(***************************************************************************)
ExampleInitial == [k \in {"a"} |-> 1]

ExampleDelivered == [k \in Keys |-> IF k = "a" THEN 2 ELSE 3]

SeqInitialProps == {EmptyProps, ExampleInitial}

SeqDelivered == {EmptyProps, ExampleDelivered}

BareError == [present |-> TRUE, hasResponse |-> FALSE, body |-> <<>>]

\* The ready states fed to the resolver in Spec.
ReadStates ==
    {ReadState(e, NoProps, r) : e \in Errors, r \in RetryIds}
    \cup {ReadState(NoError, SomeProps(m), r) : m \in SeqDelivered, r \in RetryIds}
    \cup {ReadState(NoError, NoProps, r) : r \in RetryIds}
    \cup {ReadState(BareError, SomeProps(m), r) : m \in SeqDelivered, r \in RetryIds}

\* The ready states fed to the resolver in SpecMerge: every props object.
MergeReadStates ==
    {ReadState(NoError, SomeProps(m), 1) : m \in PropMaps}
    \cup {ReadState(BareError, NoProps, 1), ReadState(NoError, NoProps, 1)}

(***************************************************************************)
(* The resolver as a state machine                                         *)
(***************************************************************************)
\* part_001:7-12  the factory: retrying = false, nothing rendered yet.
makeResolver(initials) ==
    /\ retrying = FALSE
    /\ initialProps \in initials
    /\ calls = <<>>

\* No component tree: nothing wrapped is ever mounted.
NoTracking ==
    /\ wrapper = [c \in 1..NumComps |-> "track"]
    /\ mounted = {}
    /\ cprops = [c \in 1..NumComps |-> "s1"]
    /\ updates = 0
    /\ sink = <<>>
    /\ dataLayer = <<>>
    /\ dispatched = <<>>
    /\ tracked = <<>>

\* No second and third factory invocation.
NoPair ==
    /\ flags = [r \in {1, 2} |-> FALSE]
    /\ pairInitial = [r \in {1, 2} |-> EmptyProps]
    /\ pairCalls = <<>>

\* One call of the returned function by the host framework.
Resolve(rs) ==
    LET r == resolve(retrying, initialProps, rs)
    IN  /\ retrying' = r.retrying
        /\ calls' = Append(calls,
                [rs |-> rs, before |-> retrying, after |-> r.retrying,
                 out |-> r.out, threw |-> r.threw, logged |-> r.logged,
                 invoked |-> r.invoked])
        /\ UNCHANGED <<initialProps, trackVars, pairVars>>

Init == makeResolver(SeqInitialProps) /\ NoTracking /\ NoPair

Next == \E rs \in ReadStates : Len(calls) < MaxCalls /\ Resolve(rs)

Spec == Init /\ [][Next]_vars

InitMerge == makeResolver(PropMaps) /\ NoTracking /\ NoPair

NextMerge == \E rs \in MergeReadStates : Len(calls) < MaxMergeCalls /\ Resolve(rs)

SpecMerge == InitMerge /\ [][NextMerge]_vars

(***************************************************************************)
(* Two resolvers from two invocations of the factory                       *)
(***************************************************************************)
Resolvers == {1, 2}

\* A bug: the flag declared outside the factory, one cell for every resolver.
FlagCellShared(r) == 1

\* part_001:7-12  `let retrying` is a local of the factory's body: every
\* invocation creates the cell its returned function closes over.
FlagCell(r) == r

\* The ready states fed to the two resolvers in SpecPair.
PairReadStates ==
    {ReadState(BareError, NoProps, r) : r \in RetryIds}
    \cup {ReadState(NoError, SomeProps(ExampleDelivered), 1),
          ReadState(NoError, NoProps, 1)}

\* part_001:7-12  two invocations of the factory
makeResolvers ==
    /\ flags = [r \in Resolvers |-> FALSE]
    /\ pairInitial \in [Resolvers -> SeqInitialProps]
    /\ pairCalls = <<>>

\* One call of resolver r's function by the host framework.
ResolveOf(r, rs) ==
    LET res == resolve(flags[FlagCell(r)], pairInitial[r], rs)
    IN  /\ flags' = [flags EXCEPT ![FlagCell(r)] = res.retrying]
        /\ pairCalls' = Append(pairCalls,
                [who |-> r, rs |-> rs, out |-> res.out, after |-> res.retrying])
        /\ UNCHANGED <<pairInitial, resolverVars, trackVars>>

InitPair == makeResolver({EmptyProps}) /\ NoTracking /\ makeResolvers

NextPair ==
    \E r \in Resolvers, rs \in PairReadStates :
        Len(pairCalls) < MaxPairCalls /\ ResolveOf(r, rs)

SpecPair == InitPair /\ [][NextPair]_vars

(***************************************************************************)
(* Tracking (part_000).  `track` is the react-tracking decorator as it is; *)
(* `pageViewTrack` is the decorator configured with a dispatch callback    *)
(* that posts to the native sink and with dispatchOnMount.  The decorator  *)
(* itself is a dependency: its lifecycle is modelled as the instrumentation*)
(* facility is described (a chain of tracking contexts, one top-level      *)
(* dispatch hook, a dispatch on mount when asked for, none on update).     *)
(* The tree is a chain: component c is the parent of component c + 1.      *)
(***************************************************************************)
Comps == 1..NumComps

Wrappers == {"pageViewTrack", "track"}

\* part_000:84-92  Schema.PageNames
PageNames ==
    <<"Artist", "Conversation", "ConsignmentsWelcome", "ConsignmentsOverview",
      "ConsignmentsSubmit", "Inbox", "Inquiry">>

\* part_000:94-102  Schema.OwnerEntityTypes
OwnerEntityTypes ==
    <<"Artist", "Artwork", "Conversation", "Gene", "Show", "Invoice",
      "ConsignmentSubmission">>

\* part_000:120-144  Schema.ActionNames (two of them)
ActionNames == {"artistFollow", "artistUnfollow"}

Slugs == {"s1", "s2"}

EmptyRecord == [k \in {} |-> ""]

\* The tracking info a wrapper is applied with, as a function of the
\* component's properties: a page-view record (part_000:261-265) for
\* pageViewTrack, a partial entity record for track.
ClassInfo(w, c, slug) ==
    IF w = "pageViewTrack"
    THEN [context_screen |-> PageNames[c], context_screen_owner_slug |-> slug]
    ELSE [owner_type |-> OwnerEntityTypes[c], owner_slug |-> slug]

\* part_000:178-184  the tracking info of an instrumented method
MethodInfo(name) == [action_type |-> "tap", action_name |-> name]

\* A bug: the mount dispatch switched off.
dispatchOnMountOff == FALSE

\* part_000:275  dispatchOnMount: true
dispatchOnMount == TRUE

\* part_000:273-276  the options pageViewTrack hands to the decorator
pageViewTrackOptions == [dispatch |-> "postEvent", dispatchOnMount |-> dispatchOnMount]

\* part_000:221  track is the decorator itself: no options of its own
trackOptions == [dispatch |-> "unset", dispatchOnMount |-> FALSE]

Options(w) == IF w = "pageViewTrack" THEN pageViewTrackOptions ELSE trackOptions

\* Events.postEvent: one more call of the native sink, with this payload.
postEvent(s, data) == Append(s, data)

\* A bug: a record equal to the one just posted is dropped.
pageViewDispatchDedup(s, data) ==
    IF s # <<>> /\ s[Len(s)] = data THEN s ELSE postEvent(s, data)

\* A bug: the callback never reaches the sink.
pageViewDispatchDrop(s, data) == s

\* part_000:274  dispatch: data => Events.postEvent(data)
pageViewDispatch(s, data) == postEvent(s, data)

\* The facility's merge of tracking data: the nearer record wins a key.
RecMerge(base, over) ==
    [k \in (DOMAIN base) \cup (DOMAIN over) |->
        IF k \in DOMAIN over THEN over[k] ELSE base[k]]

\* The tracking data of component c's context chain, itself included.
RECURSIVE ContextData(_, _)
ContextData(c, props) ==
    IF c = 0 THEN EmptyRecord
    ELSE RecMerge(ContextData(c - 1, props), ClassInfo(wrapper[c], c, props[c]))

\* The dispatch hook in force: the one the top-level component configures.
TreeDispatch == Options(wrapper[1]).dispatch

\* The trees modelled: a wrapper that configures the dispatch hook sits at
\* the top of its tree (part_000:62 "The root container component should
\* specify this as the screen context").
TreeKinds ==
    {w \in [Comps -> Wrappers] :
        \A c \in Comps : (c > 1 /\ w[c] = "pageViewTrack") => w[1] = "pageViewTrack"}

Room == Len(sink) + Len(dataLayer) < MaxEvents

\* The facility's trackEvent: merge the context chain under the data and
\* hand the record to the dispatch hook in force.
trackEvent(c, props, data) ==
    LET rec == RecMerge(ContextData(c, props), data)
    IN  IF TreeDispatch = "postEvent"
        THEN /\ sink' = pageViewDispatch(sink, rec)
             /\ dispatched' = Append(dispatched, rec)
             /\ UNCHANGED dataLayer
        ELSE /\ dataLayer' = Append(dataLayer, rec)
             /\ UNCHANGED <<sink, dispatched>>

\* A wrapped component mounts with its incoming properties.
Mount(c, slug) ==
    /\ c \notin mounted
    /\ c = 1 \/ (c - 1) \in mounted
    /\ Options(wrapper[c]).dispatchOnMount => Room
    /\ mounted' = mounted \cup {c}
    /\ cprops' = [cprops EXCEPT ![c] = slug]
    /\ IF Options(wrapper[c]).dispatchOnMount
       THEN trackEvent(c, cprops', EmptyRecord)
       ELSE UNCHANGED <<sink, dataLayer, dispatched>>
    /\ UNCHANGED <<wrapper, updates, tracked, resolverVars, pairVars>>

\* A mounted component receives new properties.
Update(c, slug) ==
    /\ c \in mounted
    /\ slug # cprops[c]
    /\ updates < MaxUpdates
    /\ cprops' = [cprops EXCEPT ![c] = slug]
    /\ updates' = updates + 1
    /\ UNCHANGED <<wrapper, mounted, sink, dataLayer, dispatched, tracked,
                   resolverVars, pairVars>>

\* A component unmounts once its child has; its properties are gone.
Unmount(c) ==
    /\ c \in mounted
    /\ (c + 1) \notin mounted
    /\ mounted' = mounted \ {c}
    /\ cprops' = [cprops EXCEPT ![c] = "s1"]
    /\ UNCHANGED <<wrapper, updates, sink, dataLayer, dispatched,
                   tracked, resolverVars, pairVars>>

\* A method instrumented with track is called on a mounted component.
TrackedCall(c, name) ==
    /\ c \in mounted
    /\ Room
    /\ trackEvent(c, cprops, MethodInfo(name))
    /\ tracked' = Append(tracked,
            [comp |-> c, info |-> MethodInfo(name),
             chain |-> [a \in 1..c |-> ClassInfo(wrapper[a], a, cprops[a])]])
    /\ UNCHANGED <<wrapper, mounted, cprops, updates, resolverVars, pairVars>>

InitTrack ==
    /\ makeResolver({EmptyProps})
    /\ NoPair
    /\ wrapper \in TreeKinds
    /\ mounted = {}
    /\ cprops = [c \in Comps |-> "s1"]
    /\ updates = 0
    /\ sink = <<>>
    /\ dataLayer = <<>>
    /\ dispatched = <<>>
    /\ tracked = <<>>

NextTrack ==
    \E c \in Comps :
        \/ \E slug \in Slugs : Mount(c, slug)
        \/ \E slug \in Slugs : Update(c, slug)
        \/ Unmount(c)
        \/ \E name \in ActionNames : TrackedCall(c, name)

SpecTrack == InitTrack /\ [][NextTrack]_vars

(***************************************************************************)
(* Vocabulary of the properties                                            *)
(***************************************************************************)
IsError(i) == calls[i].rs.error.present

IsProps(i) == ~calls[i].rs.error.present /\ calls[i].rs.props.present

IsLoading(i) == ~calls[i].rs.error.present /\ ~calls[i].rs.props.present

IsFailure(e) == e.kind = "LoadFailureView" /\ e.style = "flex1"

\* the number of error inputs among the first i calls
ErrorRank(i) == Cardinality({j \in 1..i : IsError(j)})

\* m holds every key of either object, the delivered value where there is
\* one and the initial value otherwise
MergedUnder(m, initial, delivered) ==
    /\ DOMAIN m = (DOMAIN initial) \cup (DOMAIN delivered)
    /\ \A k \in DOMAIN delivered : m[k] = delivered[k]
    /\ \A k \in (DOMAIN initial) \ (DOMAIN delivered) : m[k] = initial[k]

IsMalformed(i) ==
    /\ IsError(i)
    /\ calls[i].rs.error.hasResponse
    /\ calls[i].rs.error.body # <<>>
    /\ JSONParse(calls[i].rs.error.body).threw

(***************************************************************************)
(* C1: a fresh resolver fed [error, error, props] returns a failure view   *)
(* carrying the first input's retry callback, then a failure view with no  *)
(* retry callback, then the container with initialProps merged under the   *)
(* delivered props.                                                        *)
(***************************************************************************)
C1_ErrorErrorProps ==
    /\ (Len(calls) >= 1 /\ IsError(1)) =>
           /\ IsFailure(calls[1].out)
           /\ calls[1].out.onRetry = calls[1].rs.retry
    /\ (Len(calls) >= 2 /\ IsError(1) /\ IsError(2)) =>
           /\ IsFailure(calls[2].out)
           /\ calls[2].out.onRetry = NoRetry
    /\ (Len(calls) >= 3 /\ IsError(1) /\ IsError(2) /\ IsProps(3)) =>
           /\ calls[3].out.kind = "Container"
           /\ MergedUnder(calls[3].out.props, initialProps, calls[3].rs.props.map)

C1_Witness ==
    /\ Len(calls) = 3
    /\ IsError(1) /\ IsError(2) /\ IsProps(3)
    /\ calls[1].rs.retry = 1 /\ calls[2].rs.retry = 2
    /\ initialProps = ExampleInitial
    /\ calls[3].rs.props.map = ExampleDelivered
    /\ calls[1].out.onRetry = 1
    /\ calls[2].out.onRetry = NoRetry
    /\ calls[3].out.props = ExampleDelivered

(***************************************************************************)
(* C2: retrying is false when the factory returns; an error seen while     *)
(* retrying is false returns a failure view with that input's retry        *)
(* callback and sets the flag, an error seen while it is true returns a    *)
(* failure view with no callback and clears it; so the k-th error input    *)
(* shows the retry affordance exactly when k is odd.                       *)
(***************************************************************************)
C2_RetryToggles ==
    /\ calls = <<>> => retrying = FALSE
    /\ \A i \in 1..Len(calls) :
          IsError(i) =>
             /\ IsFailure(calls[i].out)
             /\ ~calls[i].before =>
                   calls[i].out.onRetry = calls[i].rs.retry /\ calls[i].after
             /\ calls[i].before =>
                   calls[i].out.onRetry = NoRetry /\ ~calls[i].after
             /\ (calls[i].out.onRetry # NoRetry) <=> (ErrorRank(i) % 2 = 1)

C2_Witness ==
    /\ Len(calls) = 3
    /\ \A i \in 1..3 : IsError(i)
    /\ calls[1].out.onRetry = calls[1].rs.retry
    /\ calls[2].out.onRetry = NoRetry
    /\ calls[3].out.onRetry = calls[3].rs.retry
    /\ retrying

(***************************************************************************)
(* C3 as claimed: the returned function is pure, the same read state       *)
(* always produces the same output whatever calls came before.             *)
(***************************************************************************)
C3_PureOfReadState ==
    \A i, j \in 1..Len(calls) :
        calls[i].rs = calls[j].rs => calls[i].out = calls[j].out

(***************************************************************************)
(* C3 as amended: the same read state produces the same output when it     *)
(* carries no error, or when the numbers of error inputs seen before the   *)
(* two calls have the same parity; an error input's output does depend on  *)
(* the earlier calls, through that parity.                                 *)
(***************************************************************************)
C3_PureUpToErrorParity ==
    \A i, j \in 1..Len(calls) :
        (/\ calls[i].rs = calls[j].rs
         /\ IsError(i) => (ErrorRank(i) % 2 = ErrorRank(j) % 2))
        => calls[i].out = calls[j].out

C3_Witness ==
    /\ Len(calls) = 3
    /\ IsError(1)
    /\ calls[2].rs = calls[1].rs /\ calls[3].rs = calls[1].rs
    /\ calls[3].out = calls[1].out
    /\ calls[2].out # calls[1].out

(***************************************************************************)
(* C4: with props present and no error the output is the container whose   *)
(* properties hold every key of initialProps and of the delivered props,   *)
(* the delivered value winning on a key of both, whatever the retrying     *)
(* flag is ({a: 1} under {a: 2, b: 3} gives {a: 2, b: 3}).                 *)
(***************************************************************************)
C4_PropsMerged ==
    \A i \in 1..Len(calls) :
        IsProps(i) =>
           /\ calls[i].out.kind = "Container"
           /\ MergedUnder(calls[i].out.props, initialProps, calls[i].rs.props.map)

C4_Witness ==
    /\ Len(calls) = 2
    /\ IsError(1) /\ IsProps(2)
    /\ calls[2].before
    /\ initialProps = ExampleInitial
    /\ calls[2].rs.props.map = ExampleDelivered
    /\ calls[2].out.props = [k \in Keys |-> IF k = "a" THEN 2 ELSE 3]

(***************************************************************************)
(* C5: with neither error nor props the output is the loading indicator,   *)
(* on a fresh resolver and after any earlier calls.                        *)
(***************************************************************************)
C5_LoadingSpinner ==
    \A i \in 1..Len(calls) :
        IsLoading(i) =>
           /\ calls[i].out.kind = "Spinner"
           /\ calls[i].out.style = "flex1"
           /\ calls[i].out.onRetry = NoRetry

C5_Witness ==
    /\ Len(calls) = 3
    /\ IsLoading(1) /\ IsError(2) /\ IsLoading(3)
    /\ calls[3].before
    /\ calls[1].out.kind = "Spinner" /\ calls[3].out.kind = "Spinner"

(***************************************************************************)
(* C6: an error whose response body is not parseable as JSON does not      *)
(* throw out of the resolver; it returns a failure view and toggles the    *)
(* flag as any other error does.                                           *)
(***************************************************************************)
C6_MalformedBodySwallowed ==
    \A i \in 1..Len(calls) :
        IsMalformed(i) =>
           /\ ~calls[i].threw
           /\ IsFailure(calls[i].out)
           /\ calls[i].after = ~calls[i].before
           /\ calls[i].out.onRetry =
                 IF calls[i].before THEN NoRetry ELSE calls[i].rs.retry

C6_Witness ==
    /\ Len(calls) = 2
    /\ IsMalformed(1) /\ IsMalformed(2)
    /\ calls[1].out = FailureView(calls[1].rs.retry)
    /\ calls[2].out = FailureView(NoRetry)
    /\ ~retrying

(***************************************************************************)
(* C10: the resolver never invokes retry itself; retry is only handed out  *)
(* as the callback of a failure view returned for an error seen while      *)
(* retrying is false, and props and loading outputs never carry it.        *)
(***************************************************************************)
C10_RetryOnlyHandedOut ==
    \A i \in 1..Len(calls) :
        /\ calls[i].invoked = <<>>
        /\ calls[i].out.onRetry # NoRetry =>
              /\ IsError(i)
              /\ ~calls[i].before
              /\ calls[i].out.kind = "LoadFailureView"
              /\ calls[i].out.onRetry = calls[i].rs.retry

C10_Witness ==
    /\ Len(calls) = 3
    /\ IsError(1) /\ IsError(2) /\ IsLoading(3)
    /\ calls[1].out.onRetry = calls[1].rs.retry
    /\ calls[2].before /\ calls[2].out.onRetry = NoRetry
    /\ calls[3].out.onRetry = NoRetry
    /\ \A i \in 1..3 : calls[i].invoked = <<>>

(***************************************************************************)
(* Vocabulary of the tracking properties                                   *)
(***************************************************************************)
IsAction(r) == "action_type" \in DOMAIN r

\* r is a page-view record of component c's screen
IsPageView(r, c) ==
    /\ ~IsAction(r)
    /\ "context_screen" \in DOMAIN r
    /\ r.context_screen = PageNames[c]

PageViewPosts(s, c) == Cardinality({i \in 1..Len(s) : IsPageView(s[i], c)})

\* The record a tracked call must produce: every key of the method's info
\* and of the partial records of the component and its ancestors, the
\* method's value first, else the value of the nearest holder of the key.
Expected(t) ==
    LET ks == (DOMAIN t.info) \cup UNION {DOMAIN t.chain[a] : a \in 1..t.comp}
    IN  [k \in ks |->
            IF k \in DOMAIN t.info THEN t.info[k]
            ELSE LET holders == {a \in 1..t.comp : k \in DOMAIN t.chain[a]}
                     nearest == CHOOSE a \in holders : \A b \in holders : b <= a
                 IN  t.chain[nearest][k]]

ExpectedRecords == [i \in 1..Len(tracked) |-> Expected(tracked[i])]

C8_SinkEqualsDispatched == sink = dispatched

C8_Witness ==
    /\ Len(dispatched) = 2
    /\ dispatched[1] = dispatched[2]
    /\ Len(sink) = 2
    /\ sink[1] = sink[2]

(***************************************************************************)
(* C9 as claimed: every event record assembled by a method instrumented    *)
(* with track reaches the native sink, merged with the partial records of  *)
(* its instrumented ancestors.                                             *)
(***************************************************************************)
C9_EveryTrackedReachesSink == SelectSeq(sink, IsAction) = ExpectedRecords

(***************************************************************************)
(* C9 as amended: the records of track-instrumented methods reach the      *)
(* native sink, merged with the partial records of the ancestors, when the *)
(* top-level component of the tree is wrapped with pageViewTrack; when it  *)
(* is wrapped with track alone no dispatch to the sink is configured and   *)
(* the merged records go to the facility's default dispatcher instead.     *)
(***************************************************************************)
C9_TrackedReachesSinkUnderPageView ==
    /\ wrapper[1] = "pageViewTrack" =>
          SelectSeq(sink, IsAction) = ExpectedRecords
    /\ wrapper[1] # "pageViewTrack" =>
          sink = <<>> /\ SelectSeq(dataLayer, IsAction) = ExpectedRecords

C9_Witness ==
    /\ wrapper[1] = "pageViewTrack" /\ wrapper[2] = "track"
    /\ Len(tracked) = 1
    /\ tracked[1].comp = 2
    /\ Len(sink) = 2
    /\ sink[2].action_name = "artistFollow"
    /\ sink[2].context_screen = "Artist"
    /\ sink[2].owner_type = "Artwork"
    /\ sink[2].owner_slug = "s2"

(***************************************************************************)
(* C11: a call with props, or with neither error nor props, leaves the     *)
(* retrying flag as it was; so after [error, props, error] or              *)
(* [error, loading, error] the second error returns a failure view with no *)
(* retry callback, as after [error, error].                                *)
(***************************************************************************)
C11_SuccessKeepsFlag ==
    /\ calls # <<>> => retrying = calls[Len(calls)].after
    /\ \A i \in 1..Len(calls) :
          /\ i > 1 => calls[i].before = calls[i - 1].after
          /\ (IsProps(i) \/ IsLoading(i)) => calls[i].after = calls[i].before
    /\ (Len(calls) >= 3 /\ IsError(1) /\ ~IsError(2) /\ IsError(3)) =>
          calls[3].out = FailureView(NoRetry)

C11_Witness ==
    /\ Len(calls) = 3
    /\ IsError(1) /\ IsProps(2) /\ IsError(3)
    /\ calls[2].before /\ calls[2].after
    /\ calls[2].out.kind = "Container"
    /\ calls[3].out = FailureView(NoRetry)
    /\ ~retrying

(***************************************************************************)
(* C12: when a read state carries both an error and props the error wins:  *)
(* the output is a failure view and the retrying flag is toggled; the      *)
(* wrapped container is not rendered.                                      *)
(***************************************************************************)
C12_ErrorBeforeProps ==
    \A i \in 1..Len(calls) :
        (calls[i].rs.error.present /\ calls[i].rs.props.present) =>
           /\ IsFailure(calls[i].out)
           /\ calls[i].out.kind # "Container"
           /\ calls[i].after = ~calls[i].before
           /\ calls[i].out.onRetry =
                 IF calls[i].before THEN NoRetry ELSE calls[i].rs.retry

C12_Witness ==
    /\ Len(calls) = 2
    /\ \A i \in 1..2 :
          /\ calls[i].rs.error.present
          /\ calls[i].rs.props.present
          /\ calls[i].rs.props.map = ExampleDelivered
          /\ calls[i].out.kind = "LoadFailureView"
    /\ calls[1].after /\ ~calls[2].after

(***************************************************************************)
(* Vocabulary of the two-resolver property                                 *)
(***************************************************************************)
\* the calls made to resolver r, in order
OwnCalls(r) ==
    LET IsOwn(e) == e.who = r
    IN  SelectSeq(pairCalls, IsOwn)

\* what a fresh resolver returns, and the flag it is left with, call by
\* call, when it alone is fed the inputs
RECURSIVE Alone(_, _, _)
Alone(initial, inputs, flag) ==
    IF inputs = <<>> THEN <<>>
    ELSE LET res == resolve(flag, initial, Head(inputs))
         IN  <<[out |-> res.out, after |-> res.retrying]>>
                 \o Alone(initial, Tail(inputs), res.retrying)

(***************************************************************************)
(* C13: each factory invocation owns its retrying flag: under any          *)
(* interleaving of calls to two resolvers, the outputs and the flag of     *)
(* each are those it would have had, had the other never been called.      *)
(***************************************************************************)
C13_ResolversIndependent ==
    \A r \in Resolvers :
        LET own == OwnCalls(r)
            alone == Alone(pairInitial[r], [i \in 1..Len(own) |-> own[i].rs], FALSE)
        IN  /\ \A i \in 1..Len(own) :
                  /\ own[i].out = alone[i].out
                  /\ own[i].after = alone[i].after
            /\ flags[r] = IF own = <<>> THEN FALSE ELSE alone[Len(own)].after

C13_Witness ==
    /\ Len(pairCalls) = 4
    /\ \A i \in 1..4 : pairCalls[i].rs.error.present
    /\ pairCalls[1].who = 1 /\ pairCalls[2].who = 2
    /\ pairCalls[3].who = 1 /\ pairCalls[4].who = 2
    /\ pairCalls[1].out.onRetry = pairCalls[1].rs.retry
    /\ pairCalls[2].out.onRetry = pairCalls[2].rs.retry
    /\ pairCalls[3].out = FailureView(NoRetry)
    /\ pairCalls[4].out = FailureView(NoRetry)
    /\ flags = [r \in Resolvers |-> FALSE]

=============================================================================
